---- MODULE Spec2Model ----
(***************************************************************************)
(* Model of the Padchat websocket client (src/index.js): the connection    *)
(* life cycle (start and the socket callbacks), the command path           *)
(* (sendCmd -> asyncSend -> getCmdRecv / _send) and the inbound            *)
(* dispatcher (onWsMsg).                                                   *)
(*                                                                         *)
(* JSON values are tagged records [t, v]; object keys are sequences of     *)
(* one-character strings so that the key conversion is computed.           *)
(***************************************************************************)
EXTENDS Integers, Sequences, FiniteSets, TLC

(* ------------------------------ bounds --------------------------------- *)
MaxReq == 1
MaxSock == 2
MaxCalls == 2
MaxItems == 2

(* ------------------------- program constants --------------------------- *)
MinStartInterval == 200
DefaultTimeout == 30000
\* the two msgType values of meaningless push items
NoiseA == 2048
NoiseB == 32768
TickMs == MinStartInterval

(* ----------------------------- JSON values ----------------------------- *)
Undef == [t |-> "undef", v |-> 0]
Null == [t |-> "null", v |-> 0]
Str(s) == [t |-> "str", v |-> s]
Num(n) == [t |-> "num", v |-> n]
Bool(b) == [t |-> "bool", v |-> b]
Arr(s) == [t |-> "arr", v |-> s]
Obj(f) == [t |-> "obj", v |-> f]
EmptyObj == Obj(<<>>)

\* property read  o.k  (undefined when absent or when o is a scalar)
Get(o, k) == IF o.t = "obj" /\ k \in DOMAIN o.v THEN o.v[k] ELSE Undef

\* property write  o.k = x
Put(o, k, x) == Obj([kk \in (DOMAIN o.v) \cup {k} |-> IF kk = k THEN x ELSE o.v[kk]])

\* JavaScript truthiness, as used by  if (x)  and  !x
Truthy(x) ==
  CASE x.t = "undef" -> FALSE
    [] x.t = "null" -> FALSE
    [] x.t = "bool" -> x.v
    [] x.t = "num" -> x.v # 0
    [] x.t = "str" -> x.v # ""
    [] OTHER -> TRUE

(* ------------------------------- keys ---------------------------------- *)
k_type == <<"t", "y", "p", "e">>
k_cmd == <<"c", "m", "d">>
k_cmdId == <<"c", "m", "d", "I", "d">>
k_data == <<"d", "a", "t", "a">>
k_success == <<"s", "u", "c", "c", "e", "s", "s">>
k_error == <<"e", "r", "r", "o", "r">>
k_msg == <<"m", "s", "g">>
k_user_name == <<"u", "s", "e", "r", "_", "n", "a", "m", "e">>
k_userName == <<"u", "s", "e", "r", "N", "a", "m", "e">>
k_wxid == <<"w", "x", "i", "d">>
k_event == <<"e", "v", "e", "n", "t">>
k_list == <<"l", "i", "s", "t">>
k_msg_type == <<"m", "s", "g", "_", "t", "y", "p", "e">>
k_msgType == <<"m", "s", "g", "T", "y", "p", "e">>
k_sub_type == <<"s", "u", "b", "_", "t", "y", "p", "e">>
k_subType == <<"s", "u", "b", "T", "y", "p", "e">>
k_mType == <<"m", "T", "y", "p", "e">>
k_member == <<"m", "e", "m", "b", "e", "r">>
k_msg_id == <<"m", "s", "g", "_", "i", "d">>
k_msgId == <<"m", "s", "g", "I", "d">>
k_external == <<"e", "x", "t", "e", "r", "n", "a", "l">>
k_info == <<"i", "n", "f", "o">>
k_items == <<"i", "t", "e", "m", "s">>
k_a_b == <<"a", "_", "b">>
k_BrandInfo == <<"B", "r", "a", "n", "d", "I", "n", "f", "o">>
k_Location == <<"L", "o", "c", "a", "t", "i", "o", "n">>
k_cookies == <<"c", "o", "o", "k", "i", "e", "s">>
k_rawMsgData == <<"r", "a", "w", "M", "s", "g", "D", "a", "t", "a">>
k_content == <<"c", "o", "n", "t", "e", "n", "t">>

(* ------------------------ Helper.toCamelCase --------------------------- *)
Upper ==
  [c \in {"a", "b", "c", "d", "e", "f", "g", "h", "i", "j", "k", "l", "m",
          "n", "o", "p", "q", "r", "s", "t", "u", "v", "w", "x", "y", "z"} |->
     CASE c = "a" -> "A" [] c = "b" -> "B" [] c = "c" -> "C" [] c = "d" -> "D"
       [] c = "e" -> "E" [] c = "f" -> "F" [] c = "g" -> "G" [] c = "h" -> "H"
       [] c = "i" -> "I" [] c = "j" -> "J" [] c = "k" -> "K" [] c = "l" -> "L"
       [] c = "m" -> "M" [] c = "n" -> "N" [] c = "o" -> "O" [] c = "p" -> "P"
       [] c = "q" -> "Q" [] c = "r" -> "R" [] c = "s" -> "S" [] c = "t" -> "T"
       [] c = "u" -> "U" [] c = "v" -> "V" [] c = "w" -> "W" [] c = "x" -> "X"
       [] c = "y" -> "Y" [] c = "z" -> "Z"]

RECURSIVE camelKey(_)
\* snake_case -> camelCase on one key: "_x" becomes "X"
camelKey(k) ==
  IF Len(k) = 0 THEN <<>>
  ELSE IF Len(k) >= 2 /\ k[1] = "_" /\ k[2] \in DOMAIN Upper
       THEN <<Upper[k[2]]>> \o camelKey(SubSeq(k, 3, Len(k)))
       ELSE <<k[1]>> \o camelKey(Tail(k))

RECURSIVE toCamelCase(_)
\* keys of every mapping rewritten, sequences and nested mappings recursively,
\* scalars unchanged
toCamelCase(x) ==
  CASE x.t = "obj" ->
         Obj([k2 \in {camelKey(k) : k \in DOMAIN x.v} |->
                toCamelCase(x.v[CHOOSE k \in DOMAIN x.v : camelKey(k) = k2])])
    [] x.t = "arr" -> Arr([i \in 1..Len(x.v) |-> toCamelCase(x.v[i])])
    [] OTHER -> x

\* lower-casing of one letter
Lower ==
  [c \in {Upper[l] : l \in DOMAIN Upper} |-> CHOOSE l \in DOMAIN Upper : Upper[l] = c]

RECURSIVE underKey(_)
\* fromUser -> from_user
underKey(k) ==
  IF Len(k) = 0 THEN <<>>
  ELSE IF k[1] \in DOMAIN Lower
       THEN <<"_", Lower[k[1]]>> \o underKey(Tail(k))
       ELSE <<k[1]>> \o underKey(Tail(k))

RECURSIVE toUnderLine(_)
\* the reverse of toCamelCase: keys of every mapping rewritten to under_line
\* form, sequences and nested mappings recursively, scalars unchanged
toUnderLine(x) ==
  CASE x.t = "obj" ->
         Obj([k2 \in {underKey(k) : k \in DOMAIN x.v} |->
                toUnderLine(x.v[CHOOSE k \in DOMAIN x.v : underKey(k) = k2])])
    [] x.t = "arr" -> Arr([i \in 1..Len(x.v) |-> toUnderLine(x.v[i])])
    [] OTHER -> x

RECURSIVE JsonRoundTrip(_)
\* JSON.parse on the peer of the text JSON.stringify makes of x: a property
\* whose value is undefined is left out, an undefined element becomes null
JsonRoundTrip(x) ==
  CASE x.t = "obj" ->
         Obj([k \in {kk \in DOMAIN x.v : x.v[kk].t # "undef"} |-> JsonRoundTrip(x.v[k])])
    [] x.t = "arr" ->
         Arr([i \in 1..Len(x.v) |->
                IF x.v[i].t = "undef" THEN Null ELSE JsonRoundTrip(x.v[i])])
    [] OTHER -> x

(* ------------------------------ inputs --------------------------------- *)
\* UUID.v1(): time-based identifiers, the n-th one generated by this process
UuidV1(n) == <<"uuid-1", "uuid-2", "uuid-3", "uuid-4", "uuid-5", "uuid-6">>[n]

Cmds == {"getMyInfo"}
Payloads == {Obj(k_wxid :> Str("wxid_2"))}

\* a pushed message as the application received it, and one whose keys are
\* in under_line form already and that has no data field
RawMsg ==
  Obj((<<"f", "r", "o", "m", "U", "s", "e", "r">> :> Str("wxid_1")) @@
      (k_content :> Str("hi")) @@ (k_data :> Str("AAAA")))
RawMsgPlain ==
  Obj((<<"f", "r", "o", "m", "_", "u", "s", "e", "r">> :> Str("wxid_1")) @@
      (k_content :> Str("hi")))

\* payloads of sendCmd: without rawMsgData, with an undefined field, with a
\* pushed message, with a message there is nothing to clean in, with null
RawPayloads ==
  Payloads \cup
    {Obj((k_wxid :> Str("wxid_2")) @@ (<<"n", "o", "t", "e">> :> Undef)),
     Obj(k_rawMsgData :> RawMsg),
     Obj(k_rawMsgData :> RawMsgPlain),
     Obj(k_rawMsgData :> Null)}

\* frames a direct caller hands to asyncSend, with the cmdId it chose
CallerFrames ==
  {Obj((k_type :> Str("user")) @@ (k_cmd :> Str("init")) @@ (k_cmdId :> Str(c))) :
     c \in {"A"}}

\* the payloads (frame.data) of command replies sent by the server
ReplyOk ==
  Obj((k_success :> Bool(TRUE)) @@
      (k_data :> Obj(k_user_name :> Str("wxid_1"))))
ReplyFail ==
  Obj((k_success :> Bool(FALSE)) @@ (k_error :> Str("busy")) @@ (k_msg :> Str("")))

ReplyIds == {"A", UuidV1(1)}

CmdRetFrame(c, d) ==
  Obj((k_type :> Str("cmdRet")) @@ (k_cmdId :> Str(c)) @@
      (<<"t", "a", "s", "k", "I", "d">> :> Str("5")) @@ (k_data :> d))

UserEventFrame(e, d) ==
  Obj((k_type :> Str("userEvent")) @@ (k_event :> Str(e)) @@ (k_data :> d))

\* a push batch: a padding item and a message whose type is its sub-type
PushBatch ==
  Obj(k_list :> Arr(<<Obj(k_msg_type :> Num(NoiseA)),
                      Obj((k_msg_type :> Num(5)) @@ (k_sub_type :> Num(1)))>>))

\* parsed envelopes the server sends
ServerFrames ==
  {CmdRetFrame(c, d) : c \in ReplyIds, d \in {ReplyOk, ReplyFail}}
    \cup {Obj((k_type :> Str("cmdRet")) @@ (k_data :> ReplyOk)),
          Obj(k_type :> Str("pong")),
          UserEventFrame("login", Obj(k_user_name :> Str("wxid_1"))),
          UserEventFrame("push", PushBatch)}

(* ----------------------- inputs of the dispatcher ---------------------- *)
\* case 'qrcode': ... case 'sns': the server events passed through by name
ServerEvents == {"qrcode", "scan", "login", "loaded", "logout", "over", "sns"}

\* items of a push list: two messages, one typed by its sub-type, a padding
\* record, a record without msg_type, and null
ItemText == Obj((k_msg_type :> Num(1)) @@ (k_msg_id :> Str("m1")))
ItemSub ==
  Obj((k_msg_type :> Num(5)) @@ (k_sub_type :> Num(1)) @@ (k_msg_id :> Str("m2")))
ItemNoise == Obj((k_msg_type :> Num(NoiseA)) @@ (k_msg_id :> Str("m3")))
ItemMember ==
  Obj((k_msg_type :> Num(3)) @@ (k_member :> Str("[\"wxid_3\"]")) @@
      (k_msg_id :> Str("m9")))
ItemMemberBad ==
  Obj((k_msg_type :> Num(3)) @@ (k_member :> Str("wxid_3")) @@ (k_msg_id :> Str("m10")))
PushItems == {ItemText, ItemSub, ItemNoise, Obj(k_msg_id :> Str("m4")), Null}

\* all lists of at most MaxItems of those items
PushLists ==
  UNION {[1..n -> PushItems] : n \in 0..MaxItems}

\* lists with the other padding type, a scalar item, types that are not
\* numbers, a missing sub-type, and member fields
OtherLists ==
  {<<Obj((k_msg_type :> Num(NoiseB)) @@ (k_msg_id :> Str("m5")))>>,
   <<Num(7), ItemText>>,
   <<Obj((k_msg_type :> Null) @@ (k_msg_id :> Str("m6")))>>,
   <<Obj((k_msg_type :> Str("2048")) @@ (k_msg_id :> Str("m7")))>>,
   <<Obj((k_msg_type :> Num(5)) @@ (k_msg_id :> Str("m8")))>>,
   <<Obj((k_msg_type :> Num(3)) @@ (k_member :> Str("[\"wxid_3\"]")))>>,
   <<Obj((k_msg_type :> Num(3)) @@ (k_member :> Str("null")))>>,
   <<Obj((k_msg_type :> Num(3)) @@ (k_member :> Str("wxid_3")))>>,
   <<ItemText, ItemMemberBad, ItemSub>>,
   <<ItemMemberBad, ItemMember>>}

\* a userEvent envelope without a data field
UserEvent(e) == Obj((k_type :> Str("userEvent")) @@ (k_event :> Str(e)))

EventData == Obj((k_user_name :> Str("wxid_1")) @@ (k_msg :> Str("hi")))
WarnData == Obj(k_error :> Str("busy"))

PushFrames ==
  {UserEventFrame("push", Obj(k_list :> Arr(l))) : l \in PushLists \cup OtherLists}
    \cup {UserEventFrame("push", d) :
            d \in {Null, Str(""), Num(5), EmptyObj, Obj(k_list :> Str("m1")),
                                 Obj(k_list :> Obj(k_msg_type :> Num(1)))}}
    \cup {UserEvent("push")}

NamedFrames ==
  {UserEventFrame(e, d) : e \in ServerEvents \cup {"nosuch"}, d \in {EventData, Null}}
    \cup {UserEventFrame("login", Num(5))}
    \cup {UserEvent(e) : e \in ServerEvents \cup {"nosuch"}}
    \cup {Obj((k_type :> Str("userEvent")) @@ (k_data :> EventData))}

WarnFrames ==
  {UserEventFrame("warn", WarnData), UserEvent("warn"),
   UserEventFrame("warn", Null), UserEventFrame("warn", Str(""))}
    \cup {Put(UserEventFrame("warn", WarnData), k_success, Bool(b)) : b \in BOOLEAN}
    \cup {Put(UserEvent("warn"), k_success, Bool(TRUE))}

\* envelopes of another type or of none, replies without a usable cmdId,
\* and JSON texts that are not objects
OtherFrames ==
  {Obj(k_type :> Str("pong")), Obj(k_data :> EventData),
   Obj((k_type :> Str("cmdRet")) @@ (k_data :> ReplyOk)),
   Obj((k_type :> Str("cmdRet")) @@ (k_cmdId :> Str("")) @@ (k_data :> ReplyOk)),
   Obj((k_type :> Str("cmdRet")) @@ (k_cmdId :> Str("A"))),
   CmdRetFrame("A", ReplyOk), CmdRetFrame(UuidV1(1), ReplyOk),
   Null, Num(5), Str("pong"), Bool(TRUE), Arr(<<>>)}

\* results (data.data.data of a reply) with embedded JSON texts: texts that
\* parse, a text that does not, a text that is a JSON string holding JSON,
\* values that are not texts, and info with and without a data list
EmbeddedResults ==
  {Obj(k_external :> Str("{\"a_b\":1}")),
   Obj(k_external :> Str("oops")),
   Obj(k_external :> Str("\"[1]\"")),
   Obj(k_external :> Obj(k_a_b :> Num(1))),
   Obj(k_member :> Str("[\"wxid_3\"]")),
   Obj(k_member :> Str("oops")),
   Obj(k_member :> Arr(<<Num(5)>>)),
   Obj(k_member :> Null),
   Obj(k_info :> Str("{\"cookies\":\"[1]\",\"Location\":\"oops\"}")),
   Obj(k_info :> Str("{\"BrandInfo\":\"[1]\",\"data\":[{\"items\":[{\"cookies\":\"[1]\"}]},{\"title\":1},null,{\"items\":[{\"cookies\":\"[1]\"}]}]}")),
   Obj(k_info :> Str("null")),
   Obj(k_info :> Str("oops")),
   Obj(k_info :> Str("[1]"))}

EmbeddedFrames ==
  {CmdRetFrame("A", Obj((k_success :> Bool(TRUE)) @@ (k_data :> dd))) :
     dd \in EmbeddedResults}

DispatchFrames == PushFrames \cup NamedFrames \cup WarnFrames \cup OtherFrames

(* ------------------------------- state --------------------------------- *)
VARIABLES
  socks,      \* readyState of every Websocket created by start(), in creation order
  connected,  \* this.connected
  elapsed,    \* Date.now() - this._lastStartTime, saturated at MinStartInterval
  reqs,       \* the asyncSend calls made so far, in call order
  uuid,       \* number of identifiers UUID.v1() has generated
  unhandled,  \* a promise was rejected with no rejection handler attached
  wire,       \* the last ws.send call: asyncSend's argument, the frame as the peer
              \* decodes it, and the arguments of sendCmd when it made the call
  emitted,    \* names of the events the last operation emitted on the client, in order
  payload,    \* the first argument of each of those emit calls, in the same order
  cause,      \* for each of those emit calls, which frame of the chunk received
              \* caused it (1 when the operation is not the receipt of a chunk)
  onError,    \* the application has a listener registered for 'error'
  thrown,     \* the exception that escaped the last callback ("" when none)
  startRet    \* the promise start() returned, when the last operation was start()

vars == <<socks, connected, elapsed, reqs, uuid, unhandled, wire, emitted, payload,
          cause, onError, thrown, startRet>>

\* this.ws : the socket created most recently
ws == Len(socks)

Ids == 1..Len(reqs)

\* the arguments of the sendCmd call behind a ws.send; none for a direct
\* asyncSend call
NoCall == [cmd |-> "", data |-> Undef]

(* --------------------------- the constructor --------------------------- *)
\* new Padchat(url): _lastStartTime = 0, so the constructor's own start() is
\* accepted and this.ws is a connecting Websocket when the constructor returns
Constructed ==
  /\ socks = <<"CONNECTING">>
  /\ connected = FALSE
  /\ elapsed = 0
  /\ reqs = <<>>
  /\ uuid = 0
  /\ unhandled = FALSE
  /\ wire = [arg |-> Undef, frame |-> Undef, sent |-> FALSE, call |-> NoCall]
  /\ emitted = <<>>
  /\ payload = <<>>
  /\ cause = <<>>
  /\ thrown = ""
  /\ startRet = "none"

\* a new client has no listeners but its own
Init == Constructed /\ onError = FALSE

\* new Padchat(url).on('error', listener): the application subscribes to
\* 'error' in the statement that constructs the client
InitListening == Constructed /\ onError = TRUE

\* an exception that escapes a callback of the socket is uncaught: the
\* process ends, nothing runs afterwards
Running == thrown = ""

\* client.on('error', listener), called by the application
OnError ==
  /\ Running
  /\ ~onError
  /\ onError' = TRUE
  /\ emitted' = <<>>
  /\ payload' = <<>>
  /\ cause' = <<>>
  /\ startRet' = "none"
  /\ UNCHANGED <<socks, connected, elapsed, reqs, uuid, unhandled, wire, thrown>>

(* -------------------------------- time --------------------------------- *)
Tick ==
  /\ Running
  /\ elapsed < MinStartInterval
  /\ elapsed' = IF elapsed + TickMs > MinStartInterval
                THEN MinStartInterval ELSE elapsed + TickMs
  /\ emitted' = <<>>
  /\ payload' = <<>>
  /\ cause' = <<>>
  /\ startRet' = "none"
  /\ UNCHANGED <<socks, connected, reqs, uuid, unhandled, wire, onError, thrown>>

(* ------------------------------- start() ------------------------------- *)
\* variant of startTooSoon: no rate limit
startTooSoon_never(el) == FALSE

\* the rate limit of start()
startTooSoon(el) == el < MinStartInterval

\* ws.terminate() on the previous socket when it is open
startTerminate(st) == IF st = "OPEN" THEN "CLOSING" ELSE st

\* variant of startThrown: the previous socket is terminated before the check
startThrown_terminates(ss) == [ss EXCEPT ![Len(ss)] = startTerminate(ss[Len(ss)])]

\* the sockets after a start() that threw at the rate limit: nothing was done
startThrown(ss) == ss

\* start() is async: the throw rejects the promise it returns
Start ==
  /\ Running
  /\ emitted' = <<>>
  /\ payload' = <<>>
  /\ cause' = <<>>
  /\ IF startTooSoon(elapsed)
     THEN /\ startRet' = "rejected"
          /\ socks' = startThrown(socks)
          /\ UNCHANGED <<connected, elapsed, reqs, uuid, unhandled, wire,
                         onError, thrown>>
     ELSE /\ Len(socks) < MaxSock
          /\ startRet' = "fulfilled"
          /\ elapsed' = 0
          /\ socks' = Append([socks EXCEPT ![ws] = startTerminate(socks[ws])],
                             "CONNECTING")
          /\ UNCHANGED <<connected, reqs, uuid, unhandled, wire, onError, thrown>>

(* -------------------------- socket callbacks --------------------------- *)
\* .on('open')
WsOpen(s) ==
  /\ Running
  /\ socks[s] = "CONNECTING"
  /\ socks' = [socks EXCEPT ![s] = "OPEN"]
  /\ connected' = TRUE
  /\ emitted' = <<"open">>
  /\ payload' = <<Undef>>
  /\ cause' = <<1>>
  /\ startRet' = "none"
  /\ UNCHANGED <<elapsed, reqs, uuid, unhandled, wire, onError, thrown>>

\* variant of WsClose: the handler drops the listeners of the requests in flight
WsClose_dropsPending(s) ==
  /\ Running
  /\ socks[s] # "CLOSED"
  /\ socks' = [socks EXCEPT ![s] = "CLOSED"]
  /\ connected' = FALSE
  /\ reqs' = [j \in 1..Len(reqs) |-> [reqs[j] EXCEPT !.listener = FALSE]]
  /\ emitted' = <<"close">>
  /\ payload' = <<Undef>>
  /\ cause' = <<1>>
  /\ startRet' = "none"
  /\ UNCHANGED <<elapsed, uuid, unhandled, wire, onError, thrown>>

\* variant of WsClose: the handler forgets to clear the flag
WsClose_keepsFlag(s) ==
  /\ Running
  /\ socks[s] # "CLOSED"
  /\ socks' = [socks EXCEPT ![s] = "CLOSED"]
  /\ connected' = connected
  /\ emitted' = <<"close">>
  /\ payload' = <<Undef>>
  /\ cause' = <<1>>
  /\ startRet' = "none"
  /\ UNCHANGED <<elapsed, reqs, uuid, unhandled, wire, onError, thrown>>

\* .on('close')
WsClose(s) ==
  /\ Running
  /\ socks[s] # "CLOSED"
  /\ socks' = [socks EXCEPT ![s] = "CLOSED"]
  /\ connected' = FALSE
  /\ emitted' = <<"close">>
  /\ payload' = <<Undef>>
  /\ cause' = <<1>>
  /\ startRet' = "none"
  /\ UNCHANGED <<elapsed, reqs, uuid, unhandled, wire, onError, thrown>>

\* an Error object with message m
ErrorObj(m) == [t |-> "error", v |-> m]

\* one this.emit(name, arg, ...) call
Ev(name, arg) == [name |-> name, arg |-> arg]

\* variant of emitError: an 'error' event without a listener is dropped
emitError_quiet(sub, e) == [evs |-> <<Ev("error", e)>>, thrown |-> ""]

\* this.emit('error', e): EventEmitter throws e when 'error' has no listener
emitError(sub, e) ==
  [evs |-> <<Ev("error", e)>>, thrown |-> IF sub THEN "" ELSE "Error"]

\* the names and the first arguments of a sequence of emit calls
evNames(evs) == [k \in 1..Len(evs) |-> evs[k].name]
evArgs(evs) == [k \in 1..Len(evs) |-> evs[k].arg]

\* variant of WsError: a fault is taken for the end of the connection
WsError_disconnects(s) ==
  /\ Running
  /\ socks[s] # "CLOSED"
  /\ LET run == emitError(onError, ErrorObj("socket"))
     IN /\ emitted' = evNames(run.evs)
        /\ payload' = evArgs(run.evs)
        /\ cause' = [k \in 1..Len(run.evs) |-> 1]
        /\ startRet' = "none"
        /\ thrown' = run.thrown
  /\ connected' = FALSE
  /\ UNCHANGED <<socks, elapsed, reqs, uuid, unhandled, wire, onError>>

\* .on('error', e => { this.emit('error', e) })
WsError(s) ==
  /\ Running
  /\ socks[s] # "CLOSED"
  /\ LET run == emitError(onError, ErrorObj("socket"))
     IN /\ emitted' = evNames(run.evs)
        /\ payload' = evArgs(run.evs)
        /\ cause' = [k \in 1..Len(run.evs) |-> 1]
        /\ startRet' = "none"
        /\ thrown' = run.thrown
  /\ UNCHANGED <<socks, connected, elapsed, reqs, uuid, unhandled, wire, onError>>

(* ----------------------------- _send(data) ----------------------------- *)
\* ws.send(text, cb) of the ws library: transmits on an open socket (cb runs
\* later) and fails at once with error v on any other readyState
wsSend(st, v) ==
  IF st = "OPEN" THEN [sent |-> TRUE, err |-> ""] ELSE [sent |-> FALSE, err |-> v]

\* variant of _send: the connected check is missing
_send_noCheck(conn, st, v) ==
  LET w == wsSend(st, v) IN
    IF w.sent
    THEN [send |-> "pending", sendErr |-> "", onWire |-> TRUE]
    ELSE [send |-> "rejected", sendErr |-> w.err, onWire |-> FALSE]

\* the promise _send returns: reject('not connected') does not return, so
\* ws.send is still called; a settled promise ignores later resolve/reject
_send(conn, st, v) ==
  LET w == wsSend(st, v) IN
    IF ~conn
    THEN [send |-> "rejected", sendErr |-> "notConnected", onWire |-> w.sent]
    ELSE IF w.sent
         THEN [send |-> "pending", sendErr |-> "", onWire |-> TRUE]
         ELSE [send |-> "rejected", sendErr |-> w.err, onWire |-> FALSE]

WsSendFailures == {"notOpen"}

(* ------------------------ getCmdRecv(cmdId, timeout) ------------------- *)
\* the delay given to setTimeout, in milliseconds: timeout * 1000
timerDelay(timeout) == timeout * 1000

\* setTimeout(..., timeout * 1000) and this.once('RET#' + cmdId, ...)
getCmdRecv(cmdId, timeout) ==
  [cmdId |-> cmdId, listener |-> TRUE, timer |-> "armed", recv |-> "pending",
   nRes |-> 0, nFire |-> 0, timeout |-> timeout, delay |-> timerDelay(timeout)]

\* variant of onCmdRet: the listener forgets clearTimeout
onCmdRet_noClear(r) ==
  [r EXCEPT !.listener = FALSE,
            !.recv = IF @ = "pending" THEN "fulfilled" ELSE @,
            !.nRes = @ + 1]

\* the once-listener: clearTimeout(timeOutHandle); res(data)
onCmdRet(r) ==
  [r EXCEPT !.listener = FALSE,
            !.timer = IF @ = "armed" THEN "cleared" ELSE @,
            !.recv = IF @ = "pending" THEN "fulfilled" ELSE @,
            !.nRes = @ + 1]

\* variant of timeOutHandle: the timer callback leaves the listener registered
timeOutHandle_keepListener(rs, i) ==
  [rs EXCEPT ![i].timer = "fired",
             ![i].recv = IF @ = "pending" THEN "rejected" ELSE @,
             ![i].nFire = @ + 1]

\* variant of timeOutHandle: removeAllListeners() without the event name
timeOutHandle_allListeners(rs, i) ==
  [j \in 1..Len(rs) |->
     IF j = i
     THEN [rs[j] EXCEPT !.listener = FALSE, !.timer = "fired",
                        !.recv = IF @ = "pending" THEN "rejected" ELSE @,
                        !.nFire = @ + 1]
     ELSE [rs[j] EXCEPT !.listener = FALSE]]

\* the timer callback of request i: this.removeAllListeners('RET#' + cmdId); rej(...)
timeOutHandle(rs, i) ==
  [j \in 1..Len(rs) |->
     LET r == IF rs[j].cmdId = rs[i].cmdId THEN [rs[j] EXCEPT !.listener = FALSE]
              ELSE rs[j]
     IN IF j = i
        THEN [r EXCEPT !.timer = "fired",
                       !.recv = IF @ = "pending" THEN "rejected" ELSE @,
                       !.nFire = @ + 1]
        ELSE r]

(* ------------------------ asyncSend(data, timeout) --------------------- *)
\* variant of asyncSendCmdId: the caller's cmdId is overwritten too
asyncSendCmdId_always(data, fresh) == Put(data, k_cmdId, Str(fresh))

\* if (!data.cmdId) data.cmdId = UUID.v1()
asyncSendCmdId(data, fresh) ==
  IF ~Truthy(Get(data, k_cmdId)) THEN Put(data, k_cmdId, Str(fresh)) ELSE data

\* variant of asyncSendThen: resolves with the command-specific result only
asyncSendThen_inner(data) == Get(Get(data, k_data), k_data)

\* variant of asyncSendThen: resolves with the whole envelope
asyncSendThen_envelope(data) == data

\* .then(data => res(data.data)) on the promise of getCmdRecv
asyncSendThen(data) == Get(data, k_data)

\* what try { ... } catch (e) { rej(e) } makes of a rejected _send or a
\* rejected getCmdRecv: both are promises, nothing is thrown, rej is not called
asyncSendCatch(r) == r.outcome

\* variant of sendCmdFrame: the payload fields are spread into the frame
sendCmdFrame_flat(cmd, data) ==
  Obj((k_type :> Str("user")) @@ (k_cmd :> Str(cmd)) @@ data.v)

\* sendCmd(cmd, data): the frame given to asyncSend
sendCmdFrame(cmd, data) ==
  Obj((k_type :> Str("user")) @@ (k_cmd :> Str(cmd)) @@ (k_data :> data))

\* variant of clearRawMsg: nothing is removed
clearRawMsg_keeps(obj) == obj

\* if (typeof obj === 'object') { delete obj.data }
clearRawMsg(obj) ==
  IF obj.t = "obj" THEN Obj([k \in DOMAIN obj.v \ {k_data} |-> obj.v[k]]) ELSE obj

\* if (data.rawMsgData) { data.rawMsgData = Helper.toUnderLine(clearRawMsg(data.rawMsgData)) }
sendCmdData(data) ==
  IF Truthy(Get(data, k_rawMsgData))
  THEN Put(data, k_rawMsgData, toUnderLine(clearRawMsg(Get(data, k_rawMsgData))))
  ELSE data

\* one asyncSend call; call holds the arguments of sendCmd when it made the call
AsyncSendCall(data, call, timeout) ==
  /\ Running
  /\ \E v \in WsSendFailures :
       LET frame == asyncSendCmdId(data, UuidV1(uuid + 1))
           snd == _send(connected, socks[ws], v)
           r0 == getCmdRecv(Get(frame, k_cmdId).v, timeout) @@ snd @@
                 [cmd |-> call.cmd, connAtSend |-> connected, outcome |-> "pending",
                  value |-> Undef, reply |-> Undef]
           r == [r0 EXCEPT !.outcome = asyncSendCatch(r0)]
       IN /\ reqs' = Append(reqs, r)
          /\ uuid' = IF frame = data THEN uuid ELSE uuid + 1
          /\ unhandled' = (unhandled \/ snd.send = "rejected")
          /\ wire' = [arg |-> data, frame |-> JsonRoundTrip(frame),
                      sent |-> snd.onWire, call |-> call]
          /\ emitted' = <<>>
          /\ payload' = <<>>
          /\ cause' = <<>>
          /\ startRet' = "none"
          /\ UNCHANGED <<socks, connected, elapsed, onError, thrown>>

\* asyncSend(data): timeout = 30000
AsyncSend == \E d \in CallerFrames : AsyncSendCall(d, NoCall, DefaultTimeout)

\* sendCmd(cmd, data)
SendCmd(cmd, data) ==
  AsyncSendCall(sendCmdFrame(cmd, sendCmdData(data)), [cmd |-> cmd, data |-> data],
                DefaultTimeout)

\* the callback given to ws.send:  e ? reject(new Error(...)) : resolve(true)
WsSendCallback(i, ok) ==
  /\ Running
  /\ i \in Ids
  /\ reqs[i].send = "pending"
  /\ reqs' = [reqs EXCEPT ![i].send = IF ok THEN "resolved" ELSE "rejected",
                          ![i].sendErr = IF ok THEN "" ELSE "sendFailed",
                          ![i].outcome = asyncSendCatch(
                             [reqs[i] EXCEPT !.send = IF ok THEN "resolved" ELSE "rejected"])]
  /\ unhandled' = (unhandled \/ ~ok)
  /\ emitted' = <<>>
  /\ payload' = <<>>
  /\ cause' = <<>>
  /\ startRet' = "none"
  /\ UNCHANGED <<socks, connected, elapsed, uuid, wire, onError, thrown>>

\* the timer of request i expires
Timeout(i) ==
  /\ Running
  /\ i \in Ids
  /\ reqs[i].timer = "armed"
  /\ LET rs == timeOutHandle(reqs, i)
     IN reqs' = [rs EXCEPT ![i].outcome = asyncSendCatch(rs[i])]
  /\ unhandled' = TRUE
  /\ emitted' = <<>>
  /\ payload' = <<>>
  /\ cause' = <<>>
  /\ startRet' = "none"
  /\ UNCHANGED <<socks, connected, elapsed, uuid, wire, onError, thrown>>

(* ------------------------------ onWsMsg(msg) --------------------------- *)
\* typeof msg === 'string' and JSON.parse(msg) succeeded
onWsMsgParsed(raw) == raw.kind = "text"

\* reading a property of x throws a TypeError
Nullish(x) == x.t \in {"undef", "null"}

\* JSON.parse(text) for the texts the server embeds in a field
JsonParse(text) ==
  CASE text = "[\"wxid_3\"]" -> [ok |-> TRUE, val |-> Arr(<<Str("wxid_3")>>)]
    [] text = "null" -> [ok |-> TRUE, val |-> Null]
    [] text = "[1]" -> [ok |-> TRUE, val |-> Arr(<<Num(1)>>)]
    [] text = "\"[1]\"" -> [ok |-> TRUE, val |-> Str("[1]")]
    [] text = "{\"a_b\":1}" -> [ok |-> TRUE, val |-> Obj(k_a_b :> Num(1))]
    [] text = "{\"cookies\":\"[1]\",\"Location\":\"oops\"}" ->
         [ok |-> TRUE,
          val |-> Obj((k_cookies :> Str("[1]")) @@ (k_Location :> Str("oops")))]
    [] text = "{\"BrandInfo\":\"[1]\",\"data\":[{\"items\":[{\"cookies\":\"[1]\"}]},{\"title\":1},null,{\"items\":[{\"cookies\":\"[1]\"}]}]}" ->
         [ok |-> TRUE,
          val |-> Obj((k_BrandInfo :> Str("[1]")) @@
                      (k_data :> Arr(<<Obj(k_items :> Arr(<<Obj(k_cookies :> Str("[1]"))>>)),
                                       Obj(<<"t", "i", "t", "l", "e">> :> Num(1)),
                                       Null,
                                       Obj(k_items :> Arr(<<Obj(k_cookies :> Str("[1]"))>>))>>)))]
    [] OTHER -> [ok |-> FALSE, val |-> Undef]

RECURSIVE JsonParseValue(_)
\* JSON.parse(x) for any x: x is converted to a string first
JsonParseValue(x) ==
  CASE x.t = "str" -> JsonParse(x.v)
    [] x.t \in {"num", "bool", "null"} -> [ok |-> TRUE, val |-> x]
    [] x.t = "arr" /\ Len(x.v) = 1 /\ ~Nullish(x.v[1]) -> JsonParseValue(x.v[1])
    [] OTHER -> [ok |-> FALSE, val |-> Undef]

\* if (o[k]) { try { o[k] = JSON.parse(o[k]) } catch (e) { } }  on an object o
decodeField(o, k) ==
  IF Truthy(Get(o, k))
  THEN LET p == JsonParseValue(Get(o, k)) IN IF p.ok THEN Put(o, k, p.val) ELSE o
  ELSE o

\* const fields = [...]
InfoFields ==
  {k_BrandInfo,
   <<"e", "x", "t", "e", "r", "n", "a", "l", "I", "n", "f", "o">>,
   <<"M", "M", "B", "i", "z", "M", "e", "n", "u">>,
   <<"R", "e", "g", "i", "s", "t", "e", "r", "S", "o", "u", "r", "c", "e">>,
   <<"V", "e", "r", "i", "f", "y", "S", "o", "u", "r", "c", "e">>,
   k_Location, k_cookies,
   <<"b", "r", "a", "n", "d", "I", "n", "f", "o">>,
   <<"B", "i", "n", "d", "W", "x", "a", "I", "n", "f", "o">>}

\* fields.forEach(field => ...) on info or on a search result; a value that
\* is not an object has none of the fields
decodeFields(o) ==
  IF o.t = "obj"
  THEN Obj([k \in DOMAIN o.v |->
              IF k \in InfoFields THEN Get(decodeField(o, k), k) ELSE o.v[k]])
  ELSE o

\* the first position where a loop throws, given for each position whether
\* its callback throws; past the end when none does
FirstThrow(throws) ==
  IF \E k \in 1..Len(throws) : throws[k]
  THEN CHOOSE k \in 1..Len(throws) : throws[k] /\ \A j \in 1..(k - 1) : ~throws[j]
  ELSE Len(throws) + 1

\* _item.items.forEach(...): a null result throws, the results before it are
\* decoded; ok: the loop ran to its end
decodeItems(items) ==
  LET n == FirstThrow([k \in 1..Len(items) |-> Nullish(items[k])])
  IN [val |-> [k \in 1..Len(items) |->
                 IF k < n THEN decodeFields(items[k]) ELSE items[k]],
      ok |-> n > Len(items)]

\* the body of info.data.forEach for one entry
decodeEntry(d) ==
  LET items == Get(d, k_items) IN
    IF Nullish(d) THEN [val |-> d, ok |-> FALSE]
    ELSE IF ~Truthy(items) THEN [val |-> d, ok |-> TRUE]
    ELSE IF items.t # "arr" THEN [val |-> d, ok |-> FALSE]
    ELSE LET r == decodeItems(items.v)
         IN [val |-> Put(d, k_items, Arr(r.val)), ok |-> r.ok]

\* what follows  data.data.data.info = JSON.parse(...)  inside the try: the
\* fields of info, then the entries of info.data until one throws
decodeInfo(info) ==
  IF Nullish(info) THEN info
  ELSE LET i1 == decodeFields(info)
           list == Get(i1, k_data)
       IN IF list.t # "arr" THEN i1
          ELSE LET n == FirstThrow([k \in 1..Len(list.v) |-> ~decodeEntry(list.v[k]).ok])
               IN Put(i1, k_data,
                      Arr([k \in 1..Len(list.v) |->
                             IF k <= n THEN decodeEntry(list.v[k]).val ELSE list.v[k]]))

\* the three embedded fields of data.data.data, an object
decodeEmbedded(dd) ==
  LET d1 == decodeField(dd, k_external)
      p == JsonParseValue(Get(d1, k_info))
      d2 == IF Truthy(Get(d1, k_info)) /\ p.ok
            THEN Put(d1, k_info, decodeInfo(p.val)) ELSE d1
  IN decodeField(d2, k_member)

\* if (data.data) { if (data.data.data) { ... }; data.data = Helper.toCamelCase(data.data) }
onWsMsgNormalize(data) ==
  IF Truthy(Get(data, k_data))
  THEN LET d0 == Get(data, k_data)
           dd == Get(d0, k_data)
           d1 == IF Truthy(dd) /\ dd.t = "obj"
                 THEN Put(d0, k_data, decodeEmbedded(dd)) ELSE d0
       IN Put(data, k_data, toCamelCase(d1))
  ELSE data

\* case 'cmdRet': if (data.type === 'cmdRet' && data.cmdId)
isCmdRet(data) == Get(data, k_type) = Str("cmdRet") /\ Truthy(Get(data, k_cmdId))

\* the requests whose once-listener 'RET#' + data.cmdId is registered
retListeners(rs, data) ==
  {i \in 1..Len(rs) : rs[i].listener /\ rs[i].cmdId = Get(data, k_cmdId).v}

\* a callback's emit calls so far, and the exception that ended it ("" if none)
Run(evs, exc) == [evs |-> evs, thrown |-> exc]

\* b runs after a unless a threw
Then(a, b) ==
  IF a.thrown # "" THEN a ELSE [evs |-> a.evs \o b.evs, thrown |-> b.thrown]

\* variant of pushMType: the sub-type is ignored
pushMType_main(item) == Get(item, k_msgType)

\* item.msgType === 5 ? item.subType : item.msgType
pushMType(item) ==
  IF Get(item, k_msgType) = Num(5) THEN Get(item, k_subType) ELSE Get(item, k_msgType)

\* variant of pushMember: a member that does not parse becomes an empty list
pushMember_clears(item) ==
  IF Truthy(Get(item, k_member))
  THEN LET p == JsonParseValue(Get(item, k_member))
       IN Put(item, k_member, IF p.ok /\ Truthy(p.val) THEN p.val ELSE Arr(<<>>))
  ELSE item

\* if (item.member) { try { item.member = JSON.parse(item.member) || [] } catch (e) {} }
pushMember(item) ==
  IF Truthy(Get(item, k_member))
  THEN LET p == JsonParseValue(Get(item, k_member))
       IN IF p.ok
          THEN Put(item, k_member, IF Truthy(p.val) THEN p.val ELSE Arr(<<>>))
          ELSE item
  ELSE item

\* variant of pushDropped: only the two padding types are dropped
pushDropped_noiseOnly(type) == type = Num(NoiseA) \/ type = Num(NoiseB)

\* type === undefined || type === 2048 || type === 32768
pushDropped(type) == type = Undef \/ type = Num(NoiseA) \/ type = Num(NoiseB)

RECURSIVE pushEvents(_, _)
\* data.data.list.forEach(item => ...) from item i on: item.msgType throws on
\* a null item; a kept item gets mType, its member decoded, and is emitted
pushEvents(list, i) ==
  IF i > Len(list) THEN Run(<<>>, "")
  ELSE IF Nullish(list[i]) THEN Run(<<>>, "TypeError")
  ELSE IF pushDropped(Get(list[i], k_msgType)) THEN pushEvents(list, i + 1)
  ELSE Then(Run(<<Ev("push", pushMember(Put(list[i], k_mType, pushMType(list[i]))))>>, ""),
            pushEvents(list, i + 1))

\* variant of pushMalformed: an empty list is accepted
pushMalformed_emptyOk(d) == ~Truthy(d) \/ Get(d, k_list).t # "arr"

\* !data.data || !Array.isArray(data.data.list) || data.data.list.length <= 0
pushMalformed(d) ==
  ~Truthy(d) \/ Get(d, k_list).t # "arr" \/ Len(Get(d, k_list).v) <= 0

\* case 'userEvent': switch (data.event); sub: 'error' has a listener
onUserEvent(data, sub) ==
  LET event == Get(data, k_event)
      d == Get(data, k_data)
  IN CASE event = Str("warn") ->
            IF Nullish(d) THEN Run(<<>>, "TypeError")
            ELSE Run(<<Ev("warn", ErrorObj(Get(d, k_error)))>>, "")
       [] event.t = "str" /\ event.v \in ServerEvents ->
            IF Nullish(d) THEN Run(<<>>, "TypeError")
            ELSE Run(<<Ev(event.v, IF Truthy(d) THEN d ELSE EmptyObj)>>, "")
       [] event = Str("push") ->
            IF pushMalformed(d)
            THEN emitError(sub, ErrorObj("push"))
            ELSE pushEvents(Get(d, k_list).v, 1)
       [] OTHER -> Run(<<Ev("other", data)>>, "")

\* variant of onCmdRetFrame: a reply nobody waits for is dropped silently
onCmdRetFrame_noWarn(data, hasOn) ==
  IF isCmdRet(data)
  THEN Run(<<Ev("RET#" \o Get(data, k_cmdId).v, data)>>, "")
  ELSE Run(<<>>, "")

\* case 'cmdRet'; hasOn is the result of this.emit('RET#' + data.cmdId, data)
onCmdRetFrame(data, hasOn) ==
  IF isCmdRet(data)
  THEN Run(<<Ev("RET#" \o Get(data, k_cmdId).v, data)>> \o
           (IF hasOn THEN <<>> ELSE <<Ev("warn", ErrorObj("noListener"))>>), "")
  ELSE Run(<<>>, "")

\* onWsMsg for one inbound message: data is the envelope after JSON.parse and
\* normalisation (reading data.data of a null envelope throws)
onWsMsgRun(raw, data, hasOn, sub) ==
  IF ~onWsMsgParsed(raw)
  THEN emitError(sub, ErrorObj("parse"))
  ELSE IF Nullish(data) THEN Run(<<>>, "TypeError")
  ELSE Then(Run(<<Ev("msg", data)>>, ""),
            CASE Get(data, k_type) = Str("cmdRet") -> onCmdRetFrame(data, hasOn)
              [] Get(data, k_type) = Str("userEvent") -> onUserEvent(data, sub)
              [] OTHER -> Run(<<Ev("other", data)>>, ""))

\* request r after its listener ran with data and the promise reactions ran;
\* received is the data field of the envelope as the server sent it
settleCmdRet(r, data, received) ==
  LET r1 == onCmdRet(r) IN
    IF r.recv = "pending" /\ r.outcome = "pending"
    THEN [r1 EXCEPT !.outcome = "fulfilled", !.value = asyncSendThen(data),
                    !.reply = received]
    ELSE r1

RECURSIVE sendCmdThen(_, _, _)
\* sendCmd's .then(ret => { this.emit('cmdRet', cmd, ret); return ret }) for
\* the requests in hit, in registration order, from index i on
sendCmdThen(rs, hit, i) ==
  IF i > Len(rs) THEN <<>>
  ELSE (IF i \in hit /\ rs[i].cmd # "" /\ rs[i].outcome = "fulfilled"
        THEN <<Ev("cmdRet", Str(rs[i].cmd))>> ELSE <<>>)
       \o sendCmdThen(rs, hit, i + 1)

\* every message the server may send, with the envelope onWsMsg has after
\* JSON.parse and normalisation
Received(m) ==
  LET data == onWsMsgNormalize(m.json)
  IN [raw |-> m, data |-> data,
      run |-> [hasOn \in BOOLEAN |-> [sub \in BOOLEAN |->
                 onWsMsgRun(m, data, hasOn, sub)]]]

\* what the socket hands to the 'message' callback, as the handler sees it
Inbound ==
  {Received([kind |-> "text", json |-> f]) : f \in ServerFrames}
    \cup {Received([kind |-> "badtext", json |-> Undef]),
          Received([kind |-> "binary", json |-> Undef])}

\* the messages of the dispatcher's specification
InboundDispatch ==
  {Received([kind |-> "text", json |-> f]) : f \in DispatchFrames}
    \cup {Received([kind |-> "badtext", json |-> Undef]),
          Received([kind |-> "binary", json |-> Undef])}

\* the messages of the normalisation's specification
InboundEmbedded == {Received([kind |-> "text", json |-> f]) : f \in EmbeddedFrames}

\* the messages of the specification of chunks: the replies to a command
\* of sendCmd and of a direct caller, a push batch and an unknown frame
InboundChunk ==
  {in \in Inbound :
     in.raw.json \in {CmdRetFrame(UuidV1(1), ReplyOk), CmdRetFrame("A", ReplyOk),
                      UserEventFrame("push", PushBatch), Obj(k_type :> Str("pong"))}}

\* the messages of the session's specification: the replies, a reply
\* without cmdId and a push batch
InboundSession ==
  {in \in Inbound :
     /\ in.raw.kind = "text"
     /\ \/ Get(in.raw.json, k_type) = Str("cmdRet")
        \/ in.raw.json = UserEventFrame("push", PushBatch)}

\* the messages of the life-cycle specification: a successful reply for a
\* caller's cmdId and for the first generated one
InboundLife ==
  {in \in Inbound :
     in.raw.json \in {CmdRetFrame("A", ReplyOk), CmdRetFrame(UuidV1(1), ReplyOk)}}

\* .on('message', msg => onWsMsg.call(this, msg)) on socket s
WsMessage(s, in) ==
  /\ Running
  /\ socks[s] = "OPEN"
  /\ LET raw == in.raw
         data == in.data
         hit == IF onWsMsgParsed(raw) /\ isCmdRet(data)
                THEN retListeners(reqs, data) ELSE {}
         rs == [i \in 1..Len(reqs) |->
                  IF i \in hit THEN settleCmdRet(reqs[i], data, Get(raw.json, k_data))
                  ELSE reqs[i]]
         run == Then(in.run[hit # {}][onError], Run(sendCmdThen(rs, hit, 1), ""))
     IN /\ reqs' = rs
        /\ emitted' = evNames(run.evs)
        /\ payload' = evArgs(run.evs)
        /\ cause' = [k \in 1..Len(run.evs) |-> 1]
        /\ startRet' = "none"
        /\ thrown' = run.thrown
  /\ UNCHANGED <<socks, connected, elapsed, uuid, unhandled, wire, onError>>

(* --------------------------- the specification ------------------------- *)
\* variant of chunkCause: the frame that arrived last is handled first
chunkCause_lastFirst(sync1, sync2, micro1, micro2) ==
  [k \in 1..Len(sync2) |-> 2] \o [k \in 1..Len(sync1) |-> 1] \o
  [k \in 1..Len(micro1) |-> 1] \o [k \in 1..Len(micro2) |-> 2]

\* the order in which the emit calls of a chunk of two frames run: the socket
\* calls the 'message' callback for each frame in turn, and the reactions of
\* the promises resolved meanwhile (sendCmd's .then) run when it returns
chunkCause(sync1, sync2, micro1, micro2) ==
  [k \in 1..Len(sync1) |-> 1] \o [k \in 1..Len(sync2) |-> 2] \o
  [k \in 1..Len(micro1) |-> 1] \o [k \in 1..Len(micro2) |-> 2]

\* the emit calls of a chunk, in the order chunkCause gives
chunkEvents(order, sync1, sync2, micro1, micro2) ==
  LET next(n, c) == Cardinality({k \in 1..n : order[k] = c})
      pick(n) == IF order[n] = 1
                 THEN (sync1 \o micro1)[next(n, 1)]
                 ELSE (sync2 \o micro2)[next(n, 2)]
  IN [n \in 1..Len(order) |-> pick(n)]

\* .on('message') twice in a row: two frames that arrive on socket s in one
\* chunk of data
WsChunk(s, in1, in2) ==
  /\ Running
  /\ socks[s] = "OPEN"
  /\ LET hit1 == IF onWsMsgParsed(in1.raw) /\ isCmdRet(in1.data)
                 THEN retListeners(reqs, in1.data) ELSE {}
         rs1 == [i \in 1..Len(reqs) |->
                   IF i \in hit1
                   THEN settleCmdRet(reqs[i], in1.data, Get(in1.raw.json, k_data))
                   ELSE reqs[i]]
         sync1 == in1.run[hit1 # {}][onError]
         hit2 == IF onWsMsgParsed(in2.raw) /\ isCmdRet(in2.data)
                 THEN retListeners(rs1, in2.data) ELSE {}
         rs2 == [i \in 1..Len(reqs) |->
                   IF i \in hit2
                   THEN settleCmdRet(rs1[i], in2.data, Get(in2.raw.json, k_data))
                   ELSE rs1[i]]
         sync2 == in2.run[hit2 # {}][onError]
         micro1 == sendCmdThen(rs1, hit1, 1)
         micro2 == sendCmdThen(rs2, hit2, 1)
     IN IF sync1.thrown # ""
        THEN /\ reqs' = rs1
             /\ emitted' = evNames(sync1.evs)
             /\ payload' = evArgs(sync1.evs)
             /\ cause' = [k \in 1..Len(sync1.evs) |-> 1]
             /\ thrown' = sync1.thrown
        ELSE IF sync2.thrown # ""
        THEN /\ reqs' = rs2
             /\ emitted' = evNames(sync1.evs \o sync2.evs)
             /\ payload' = evArgs(sync1.evs \o sync2.evs)
             /\ cause' = chunkCause(sync1.evs, sync2.evs, <<>>, <<>>)
             /\ thrown' = sync2.thrown
        ELSE LET order == chunkCause(sync1.evs, sync2.evs, micro1, micro2)
                 evs == chunkEvents(order, sync1.evs, sync2.evs, micro1, micro2)
             IN /\ reqs' = rs2
                /\ emitted' = evNames(evs)
                /\ payload' = evArgs(evs)
                /\ cause' = order
                /\ thrown' = ""
  /\ startRet' = "none"
  /\ UNCHANGED <<socks, connected, elapsed, uuid, unhandled, wire, onError>>

Socks == 1..Len(socks)

Next ==
  \/ Tick
  \/ Start
  \/ \E s \in Socks : WsOpen(s)
  \/ \E s \in Socks : WsClose(s)
  \/ \E s \in Socks, in \in InboundLife : WsMessage(s, in)
  \/ Len(reqs) < MaxReq /\ AsyncSend
  \/ \E i \in Ids, ok \in BOOLEAN : WsSendCallback(i, ok)
  \/ \E i \in Ids : Timeout(i)

\* the client over its whole life, reconnects included, of an application
\* that listens to 'error' and calls asyncSend (socket faults are in SpecStart
\* and SpecDispatch, sendCmd in SpecSession and SpecSendCmd)
Spec == InitListening /\ [][Next]_vars

\* one connection (no start() after the constructor's), several commands
NextSession ==
  \/ \E s \in Socks : WsOpen(s)
  \/ \E s \in Socks : WsClose(s)
  \/ \E s \in Socks : WsError(s)
  \/ \E s \in Socks, in \in InboundSession : WsMessage(s, in)
  \/ Len(reqs) < MaxCalls /\ AsyncSend
  \/ Len(reqs) < MaxCalls /\ \E c \in Cmds, d \in Payloads : SendCmd(c, d)
  \/ \E i \in Ids, ok \in BOOLEAN : WsSendCallback(i, ok)
  \/ \E i \in Ids : Timeout(i)

SpecSession == InitListening /\ [][NextSession]_vars

\* the dispatcher on one connection: every kind of inbound message, with and
\* without an 'error' listener, replies with and without a pending request
NextDispatch ==
  \/ OnError
  \/ \E s \in Socks : WsOpen(s)
  \/ \E s \in Socks : WsError(s)
  \/ \E s \in Socks, in \in InboundDispatch : WsMessage(s, in)
  \/ Len(reqs) < MaxReq /\ AsyncSend
  \/ \E i \in Ids : Timeout(i)

SpecDispatch == Init /\ [][NextDispatch]_vars

\* the connection life cycle alone: start() calls and the sockets' events
NextStart ==
  \/ OnError
  \/ Tick
  \/ Start
  \/ \E s \in Socks : WsOpen(s)
  \/ \E s \in Socks : WsClose(s)
  \/ \E s \in Socks : WsError(s)

SpecStart == Init /\ [][NextStart]_vars

\* the normalisation of replies with embedded JSON texts, on one connection
NextEmbedded ==
  \/ \E s \in Socks : WsOpen(s)
  \/ \E s \in Socks, in \in InboundEmbedded : WsMessage(s, in)
  \/ Len(reqs) < MaxReq /\ AsyncSend
  \/ \E i \in Ids : Timeout(i)

SpecEmbedded == InitListening /\ [][NextEmbedded]_vars

\* sendCmd on one connection, with every kind of payload
NextSendCmd ==
  \/ \E s \in Socks : WsOpen(s)
  \/ \E s \in Socks : WsClose(s)
  \/ Len(reqs) < MaxReq /\ \E c \in Cmds, d \in RawPayloads : SendCmd(c, d)
  \/ \E s \in Socks, in \in InboundLife : WsMessage(s, in)
  \/ \E i \in Ids, ok \in BOOLEAN : WsSendCallback(i, ok)
  \/ \E i \in Ids : Timeout(i)

SpecSendCmd == InitListening /\ [][NextSendCmd]_vars

\* frames that arrive alone and frames that arrive two in a chunk, on one
\* connection
NextChunk ==
  \/ \E s \in Socks : WsOpen(s)
  \/ Len(reqs) < MaxReq /\ AsyncSend
  \/ Len(reqs) < MaxReq /\ \E c \in Cmds, d \in Payloads : SendCmd(c, d)
  \/ \E s \in Socks, in \in InboundChunk : WsMessage(s, in)
  \/ \E s \in Socks, in1 \in InboundChunk, in2 \in InboundChunk : WsChunk(s, in1, in2)

SpecChunk == InitListening /\ [][NextChunk]_vars

\* requests with the default and with explicit timeouts, on one connection
NextTimer ==
  \/ \E s \in Socks : WsOpen(s)
  \/ \E s \in Socks : WsClose(s)
  \/ Len(reqs) < MaxReq /\
       \E d \in CallerFrames, t \in {1, DefaultTimeout \div 10, DefaultTimeout} :
         AsyncSendCall(d, NoCall, t)
  \/ Len(reqs) < MaxReq /\ \E c \in Cmds, d \in Payloads : SendCmd(c, d)
  \/ \E s \in Socks, in \in InboundLife : WsMessage(s, in)
  \/ \E i \in Ids, ok \in BOOLEAN : WsSendCallback(i, ok)
  \/ \E i \in Ids : Timeout(i)

SpecTimer == InitListening /\ [][NextTimer]_vars

(* ========================= checked properties ========================== *)
Emitted(name) == \E k \in 1..Len(emitted) : emitted[k] = name

\* C1: a request has at most one outcome: its listener runs at most once or
\* its timer fires at most once, never both; a fulfilled request has its
\* timer cleared and a request whose timer fired is never fulfilled.
C1_AtMostOneOutcome ==
  \A i \in Ids :
    /\ reqs[i].nRes + reqs[i].nFire <= 1
    /\ reqs[i].recv = "fulfilled" => reqs[i].timer = "cleared" /\ reqs[i].nRes = 1
    /\ reqs[i].timer = "fired" =>
         reqs[i].recv = "rejected" /\ reqs[i].outcome # "fulfilled"

C1_Witness ==
  \E i, j \in Ids :
    /\ reqs[i].nRes = 1 /\ reqs[i].timer = "cleared"
    /\ reqs[j].nFire = 1 /\ reqs[j].timer = "fired"

\* C2 (as claimed): once the timer of a request has fired, the promise
\* asyncSend returned to the caller is rejected.
C2_TimeoutRejectsCaller ==
  \A i \in Ids : reqs[i].timer = "fired" => reqs[i].outcome = "rejected"

\* this.emit('RET#' + c, data) was called by the operation that ran last
RetEmitted(c) == Emitted("RET#" \o c)

\* C3 (as claimed): once the timer of a request has fired its listener is
\* gone, the request is not resolved, and a cmdRet frame with its cmdId
\* produces a 'warn' event.
C3_LateReplyAlwaysWarns ==
  \A i \in Ids :
    reqs[i].timer = "fired" =>
      /\ ~reqs[i].listener
      /\ reqs[i].outcome # "fulfilled"
      /\ RetEmitted(reqs[i].cmdId) => Emitted("warn")

\* C3 (amended): once the timer of a request has fired its listener is gone
\* and no step resolves the request; a cmdRet frame with its cmdId produces
\* a 'warn' event whenever no request with that cmdId has a listener
\* registered when the frame arrives.
C3_LateReplyUnmatched ==
  [][\A i \in Ids :
       reqs[i].timer = "fired" =>
         /\ ~reqs[i].listener /\ ~reqs'[i].listener
         /\ reqs'[i].outcome = reqs[i].outcome /\ reqs[i].outcome # "fulfilled"
         /\ reqs'[i].nRes = 0
         /\ (RetEmitted(reqs[i].cmdId))' /\
              (\A j \in Ids : reqs[j].cmdId = reqs[i].cmdId => ~reqs[j].listener)
              => Emitted("warn")']_vars

C3_Witness ==
  \E i \in Ids :
    /\ reqs[i].timer = "fired" /\ reqs[i].outcome = "pending"
    /\ RetEmitted(reqs[i].cmdId) /\ Emitted("warn")

\* C4 (as claimed): when the promise of _send is rejected, the promise
\* asyncSend returned to the caller is rejected.
C4_SendFailureRejectsCaller ==
  \A i \in Ids : reqs[i].send = "rejected" => reqs[i].outcome = "rejected"

\* C5: a _send made while this.connected is false is rejected with the
\* not-connected error and is never resolved, whatever the socket does
\* with the frame afterwards.
C5_NotConnectedSendFails ==
  \A i \in Ids :
    ~reqs[i].connAtSend =>
      reqs[i].send = "rejected" /\ reqs[i].sendErr = "notConnected"

C5_Witness ==
  \E i \in Ids :
    /\ ~reqs[i].connAtSend /\ reqs[i].onWire
    /\ reqs[i].send = "rejected"
    /\ \E s \in Socks : socks[s] = "CLOSED"

\* C6 (as claimed): a request resolved by the reply
\* {success:true, data:{user_name:'wxid_1'}} resolves with {userName:'wxid_1'}.
C6_ResolvesWithInnerData ==
  \A i \in Ids :
    reqs[i].outcome = "fulfilled" /\ reqs[i].reply = ReplyOk =>
      reqs[i].value = Obj(k_userName :> Str("wxid_1"))

\* C6 (amended): a request resolved by the reply
\* {success:true, data:{user_name:'wxid_1'}} resolves with the reply's whole
\* camelCased data object {success:true, data:{userName:'wxid_1'}}.
C6_ResolvesWithDataObject ==
  \A i \in Ids :
    reqs[i].outcome = "fulfilled" /\ reqs[i].reply = ReplyOk =>
      reqs[i].value =
        Obj((k_success :> Bool(TRUE)) @@
            (k_data :> Obj(k_userName :> Str("wxid_1"))))

C6_Witness ==
  \E i \in Ids : reqs[i].outcome = "fulfilled" /\ reqs[i].reply = ReplyOk

\* C7: every call that resolves yields the result structure, an object with
\* a success field and no field other than success, error, msg and data, which
\* is the camelCased data object of the reply; the command-specific result
\* is its data field.
C7_ResultStructure ==
  \A i \in Ids :
    reqs[i].outcome = "fulfilled" =>
      /\ reqs[i].value.t = "obj"
      /\ k_success \in DOMAIN reqs[i].value.v
      /\ DOMAIN reqs[i].value.v \subseteq {k_success, k_error, k_msg, k_data}
      /\ Get(reqs[i].value, k_success) = Get(reqs[i].reply, k_success)
      /\ Get(reqs[i].value, k_data) = toCamelCase(Get(reqs[i].reply, k_data))

C7_Witness ==
  \E i \in Ids :
    /\ reqs[i].outcome = "fulfilled" /\ reqs[i].reply = ReplyFail
    /\ reqs[i].cmd # ""

\* the asyncSend call made last
LastReq == reqs[Len(reqs)]

\* C8: the frame handed to ws.send carries a non-empty cmdId; it is the
\* caller's cmdId when the caller supplied one, and otherwise a generated
\* one that no other request of this client uses.
C8_CmdIdOnEveryFrame ==
  wire.frame # Undef =>
    /\ Truthy(Get(wire.frame, k_cmdId))
    /\ LastReq.cmdId = Get(wire.frame, k_cmdId).v
    /\ Truthy(Get(wire.arg, k_cmdId)) =>
         Get(wire.frame, k_cmdId) = Get(wire.arg, k_cmdId)
    /\ ~Truthy(Get(wire.arg, k_cmdId)) =>
         \A i \in Ids : i # Len(reqs) => reqs[i].cmdId # Get(wire.frame, k_cmdId).v

C8_Witness ==
  /\ Len(reqs) = 2
  /\ reqs[1].cmdId = "A"
  /\ ~Truthy(Get(wire.arg, k_cmdId))
  /\ Truthy(Get(wire.frame, k_cmdId))

\* C9 (as claimed): the frame sendCmd transmits is {type:'user', cmd, data}
\* and the correlation id is the cmdId field of data.
C9_CmdIdInsidePayload ==
  wire.frame # Undef /\ LastReq.cmd # "" =>
    /\ DOMAIN wire.frame.v = {k_type, k_cmd, k_data}
    /\ Get(wire.frame, k_type) = Str("user")
    /\ Get(Get(wire.frame, k_data), k_cmdId) = Str(LastReq.cmdId)

\* C9 (amended): the frame sendCmd transmits is {type:'user', cmd, data, cmdId}:
\* data is the caller's payload, unchanged, and the correlation id is the
\* cmdId field of the frame itself, beside data.
C9_CmdIdBesidePayload ==
  wire.frame # Undef /\ LastReq.cmd # "" =>
    /\ DOMAIN wire.frame.v = {k_type, k_cmd, k_data, k_cmdId}
    /\ Get(wire.frame, k_type) = Str("user")
    /\ Get(wire.frame, k_cmd) = Str(LastReq.cmd)
    /\ Get(wire.frame, k_data) \in Payloads
    /\ Get(wire.frame, k_data) = Get(wire.arg, k_data)
    /\ Get(wire.frame, k_cmdId) = Str(LastReq.cmdId)

C9_Witness ==
  /\ wire.frame # Undef /\ LastReq.cmd = "getMyInfo"
  /\ wire.sent

\* C10 (as claimed): no two requests with the same cmdId have their
\* 'RET#' + cmdId listener registered at the same time.
C10_OnePendingPerCmdId ==
  \A i, j \in Ids :
    i # j /\ reqs[i].listener /\ reqs[j].listener => reqs[i].cmdId # reqs[j].cmdId

(* ------------------- the dispatcher's events (C11..C20) ---------------- *)
\* the first arguments of the emit calls of the last operation for one event
Args(name) ==
  LET idx == SelectSeq([k \in 1..Len(emitted) |-> k], LAMBDA k : emitted[k] = name)
  IN [j \in 1..Len(idx) |-> payload[idx[j]]]

Count(name) == Len(Args(name))

\* the last operation dispatched a parsed frame, and its envelope
Dispatched == Len(emitted) > 0 /\ emitted[1] = "msg"
Envelope == payload[1]

\* the last operation dispatched a userEvent frame with this event name
DispatchedEvent(e) ==
  /\ Dispatched
  /\ Get(Envelope, k_type) = Str("userEvent")
  /\ Get(Envelope, k_event) = Str(e)

\* the list of the push batch dispatched
BatchList == Get(Get(Envelope, k_data), k_list)

\* the items of a batch that are not dropped: msgType present, not 2048 or 32768
Surviving(list) ==
  SelectSeq(list, LAMBDA it : Get(it, k_msgType) \notin {Undef, Num(2048), Num(32768)})

\* C11 (as claimed): a push frame with a non-empty list emits exactly one
\* 'push' per surviving item, in list order, and none for a dropped item; an
\* item is dropped exactly when its msgType is missing, 2048 or 32768.
C11_OnePushPerSurvivingItem ==
  DispatchedEvent("push") /\ BatchList.t = "arr" /\ BatchList.v # <<>> =>
    LET kept == Surviving(BatchList.v)
    IN /\ Count("push") = Len(kept)
       /\ \A k \in 1..Len(kept) :
            Get(Args("push")[k], k_msgId) = Get(kept[k], k_msgId)

\* the batch [{msgType:2048}, {msgType:5, subType:1}] as the dispatcher has it
ScenarioC == toCamelCase(Arr(<<ItemNoise, ItemSub>>))

\* C12: every emitted push item has a field mType that is its subType when
\* its msgType is 5 and its msgType otherwise; the batch
\* [{msgType:2048}, {msgType:5, subType:1}] emits one 'push', for the second
\* item, with mType 1.
C12_EffectiveType ==
  /\ \A k \in 1..Len(emitted) :
       emitted[k] = "push" =>
         /\ payload[k].t = "obj" /\ k_mType \in DOMAIN payload[k].v
         /\ Get(payload[k], k_mType) =
              IF Get(payload[k], k_msgType) = Num(5)
              THEN Get(payload[k], k_subType) ELSE Get(payload[k], k_msgType)
  /\ DispatchedEvent("push") /\ BatchList = ScenarioC =>
       /\ Count("push") = 1
       /\ Get(Args("push")[1], k_msgId) = Str("m2")
       /\ Get(Args("push")[1], k_mType) = Num(1)

C12_Witness ==
  /\ DispatchedEvent("push") /\ BatchList = ScenarioC
  /\ emitted = <<"msg", "push">>
  /\ Get(payload[2], k_mType) = Num(1) /\ Get(payload[2], k_msgType) = Num(5)

\* C13: a push frame whose data is absent, or whose data.list is absent, not
\* a list or an empty list, emits 'error' exactly once and 'push' never.
C13_MalformedPushIsError ==
  DispatchedEvent("push") /\ (BatchList.t # "arr" \/ BatchList.v = <<>>) =>
    Count("error") = 1 /\ Count("push") = 0

C13_Witness ==
  /\ DispatchedEvent("push") /\ BatchList = Arr(<<>>)
  /\ emitted = <<"msg", "error">> /\ thrown = ""

\* C14 (as claimed): a message that is not a string or not JSON emits 'error'
\* once and nothing else, leaves the requests and the connection as they
\* were, and the client goes on dispatching.
C14_BadFrameIsOnlyAnError ==
  [][payload' = <<ErrorObj("parse")>> =>
       /\ emitted' = <<"error">>
       /\ reqs' = reqs /\ connected' = connected /\ socks' = socks
       /\ thrown' = ""]_vars

\* C15 (as claimed): no parsed envelope makes onWsMsg throw.
C15_OnWsMsgNeverThrows == thrown # "TypeError"

\* C16 (as claimed): emitting 'error' never raises an exception out of the
\* socket's callback, with or without a listener for 'error'.
C16_ErrorEventNeverRaises == Emitted("error") => thrown = ""

\* C17 (as claimed): a parsed frame that is not a reply with a cmdId, not a
\* server event and not a push batch emits 'other' exactly once, with the
\* envelope.
C17_UnclassifiedIsOther ==
  /\ Dispatched
  /\ ~(Get(Envelope, k_type) = Str("cmdRet") /\ Truthy(Get(Envelope, k_cmdId)))
  /\ ~(/\ Get(Envelope, k_type) = Str("userEvent")
       /\ Get(Envelope, k_event).t = "str"
       /\ Get(Envelope, k_event).v \in ServerEvents \cup {"warn", "push"})
  => Args("other") = <<Envelope>>

\* C18: a cmdRet frame whose cmdId has no listener registered (never issued,
\* already resolved or timed out) emits 'warn' exactly once and changes no
\* request.
C18_UnmatchedReplyWarns ==
  [][\A c \in ReplyIds :
       /\ (RetEmitted(c))'
       /\ \A i \in Ids : reqs[i].cmdId = c => ~reqs[i].listener
       => Count("warn")' = 1 /\ reqs' = reqs]_vars

C18_Witness ==
  \E i \in Ids :
    /\ reqs[i].outcome = "fulfilled" /\ ~reqs[i].listener
    /\ RetEmitted(reqs[i].cmdId) /\ Count("warn") = 1

\* C19 (as claimed): a userEvent frame whose event is one of qrcode, scan,
\* login, loaded, logout, over, sns emits that event exactly once, with the
\* frame's normalised data, and no 'other', 'push' or 'warn'.
C19_ServerEventPassedThrough ==
  \A e \in ServerEvents :
    DispatchedEvent(e) =>
      /\ Args(e) = <<Get(Envelope, k_data)>>
      /\ Count("other") = 0 /\ Count("push") = 0 /\ Count("warn") = 0

\* C20 (as claimed): a userEvent frame with event 'warn' emits 'warn' exactly
\* once and 'error' never, whatever its success flag.
C20_WarnEventAlwaysWarns ==
  DispatchedEvent("warn") => Count("warn") = 1 /\ Count("error") = 0

(* ---------------------- the life cycle (C21..C28) ---------------------- *)
\* C21 (as claimed): a parsed frame emits 'msg' exactly once, and first:
\* whatever the dispatcher does with a frame (a reply, 'push', 'warn',
\* 'other', a server event, or an exception of its own) comes after 'msg'.
C21_MsgFirstAndOnce ==
  \/ thrown = "TypeError"
  \/ \E k \in 1..Len(emitted) : emitted[k] \notin {"open", "close", "error", "cmdRet"}
  => /\ Dispatched
     /\ Count("msg") = 1

\* C22: start() less than 200 ms after the last accepted start(), the
\* constructor's included, returns a rejected promise and creates no socket;
\* the steps that create a socket are accepted start() calls made 200 ms
\* or more after the previous one.
C22_StartRateLimited ==
  [][/\ startRet' = "rejected" => elapsed < MinStartInterval /\ Len(socks') = Len(socks)
     /\ Len(socks') # Len(socks) =>
          startRet' = "fulfilled" /\ elapsed >= MinStartInterval]_vars

C22_Witness ==
  /\ startRet = "rejected"
  /\ Len(socks) = 1 /\ elapsed < MinStartInterval

\* C23: a start() rejected by the rate limit changes nothing: no socket is
\* terminated or replaced, connected and the time since the last accepted
\* start keep their values, and the earlier socket can still open.
C23_RejectedStartChangesNothing ==
  [][startRet' = "rejected" =>
       /\ socks' = socks /\ connected' = connected /\ elapsed' = elapsed
       /\ reqs' = reqs
       /\ \A s \in Socks : socks[s] = "CONNECTING" => (ENABLED WsOpen(s))']_vars

C23_Witness ==
  /\ startRet = "rejected"
  /\ socks = <<"OPEN">> /\ connected

\* C24 (as claimed): no two sockets created by the client are open at the
\* same time.
C24_OneOpenSocket ==
  Cardinality({s \in Socks : socks[s] = "OPEN"}) <= 1

\* C25: a 'close' of a socket clears connected and emits 'close' exactly
\* once; a socket is created by a start() call only, never by the client
\* after a close.
C25_CloseDisconnectsNoReconnect ==
  [][/\ (\E s \in Socks : socks[s] # "CLOSED" /\ socks'[s] = "CLOSED") =>
          ~connected' /\ emitted' = <<"close">> /\ Len(socks') = Len(socks)
     /\ Len(socks') # Len(socks) => startRet' = "fulfilled"]_vars

C25_Witness ==
  /\ emitted = <<"close">> /\ ~connected
  /\ \E s \in Socks : socks[s] = "CLOSED"
  /\ \E s \in Socks : socks[s] = "OPEN"

\* C26: an 'error' of a socket emits 'error' exactly once, with the fault,
\* and changes neither connected nor any request nor any socket.
C26_SocketErrorOnlyReports ==
  [][payload' = <<ErrorObj("socket")>> =>
       /\ emitted' = <<"error">>
       /\ connected' = connected /\ reqs' = reqs /\ socks' = socks]_vars

C26_Witness ==
  /\ payload = <<ErrorObj("socket")>> /\ connected
  /\ \E i \in Ids : reqs[i].listener /\ reqs[i].timer = "armed"

\* C27 (as claimed): a 'close' changes no request, and a request without a
\* reply whose timer fires after a close is rejected to its caller.
C27_CloseLeavesRequestsToTimeout ==
  [][/\ emitted' = <<"close">> => reqs' = reqs
     /\ \A i \in Ids :
          /\ \E s \in Socks : socks[s] = "CLOSED"
          /\ reqs[i].nRes = 0 /\ reqs[i].timer = "armed" /\ reqs'[i].timer = "fired"
          => reqs'[i].outcome = "rejected"]_vars

\* the step changes what request i waits for or what it got
Settles(i) ==
  <<reqs[i].listener, reqs[i].timer, reqs[i].recv, reqs[i].outcome, reqs[i].value>>
    # <<reqs'[i].listener, reqs'[i].timer, reqs'[i].recv, reqs'[i].outcome,
        reqs'[i].value>>

\* C28: a request whose cmdId no other request has is settled by its own
\* reply or its own timer only, and such a step settles no other request; its
\* reply resolves it whenever it is still pending, whatever the issue order.
C28_SettlesOnlyItsOwnRequest ==
  [][\A j \in Ids :
       (\A i \in Ids : i # j => reqs[i].cmdId # reqs[j].cmdId) =>
         /\ Settles(j) =>
              \/ (RetEmitted(reqs[j].cmdId))'
              \/ /\ reqs[j].timer = "armed" /\ reqs'[j].timer = "fired"
                 /\ \A i \in Ids : i # j => ~Settles(i)
         /\ (RetEmitted(reqs[j].cmdId))' /\ reqs[j].listener /\ reqs[j].outcome = "pending"
              => /\ reqs'[j].outcome = "fulfilled"
                 /\ \A i \in Ids : i # j => ~Settles(i)]_vars

C28_Witness ==
  /\ Len(reqs) = 2 /\ reqs[1].cmdId # reqs[2].cmdId
  /\ reqs[2].outcome = "fulfilled"
  /\ reqs[1].outcome = "pending" /\ reqs[1].listener /\ reqs[1].timer = "armed"

\* C29: normalising the envelope a frame was dispatched with a second time
\* (the embedded JSON texts external, info, info's sub-fields and member
\* decoded, then the keys camelCased) gives the same envelope, for every
\* input: texts that do not parse and texts that hold a JSON string which
\* itself holds JSON included.
C29_NormalizeIdempotent ==
  Dispatched => onWsMsgNormalize(Envelope) = Envelope

\* a value the decode has nothing to do with: not a text, or a text that
\* is not JSON
Undecodable(x) == x.t # "str" \/ ~JsonParse(x.v).ok

\* C30: of a reply's result, external, info and member that are absent,
\* null, not a text or not JSON reach the caller as received (keys
\* camelCased), and so do the listed sub-fields of a decoded info; a frame
\* never ends the handler before it is dispatched as 'msg'.
C30_UndecodableLeftAlone ==
  /\ thrown = "TypeError" => emitted # <<>>
  /\ \A i \in Ids :
       reqs[i].outcome = "fulfilled" =>
         LET rec == Get(reqs[i].reply, k_data)
             got == Get(reqs[i].value, k_data)
             info == Get(rec, k_info)
         IN /\ \A f \in {k_external, k_info, k_member} :
                 Undecodable(Get(rec, f)) => Get(got, f) = toCamelCase(Get(rec, f))
            /\ (~Undecodable(info) /\ JsonParse(info.v).val.t = "obj") =>
                 \A f \in InfoFields :
                   LET y == Get(JsonParse(info.v).val, f)
                   IN Undecodable(y) => Get(Get(got, k_info), f) = toCamelCase(y)

C33_EntryRemovedOnlyByOwnTrigger ==
  [][\A i \in Ids :
       LET own == \/ (RetEmitted(reqs[i].cmdId))'
                  \/ reqs[i].timer = "armed" /\ reqs'[i].timer = "fired"
       IN /\ (reqs[i].listener /\ ~reqs'[i].listener) => own
          /\ (reqs[i].timer = "armed" /\ reqs'[i].timer # "armed") => own
          /\ (reqs'[i].nRes > reqs[i].nRes \/ reqs'[i].nFire > reqs[i].nFire) =>
               ~reqs'[i].listener /\ reqs'[i].timer # "armed"]_vars

\* C34 (as claimed): the timer of a request is armed with the timeout given
\* to asyncSend (30000 by default), in milliseconds.
C34_TimerDelayIsTimeout ==
  \A i \in Ids : reqs[i].delay = reqs[i].timeout

\* the items of the batch dispatched that are not dropped, and the items
\* emitted as 'push'
Kept == Surviving(BatchList.v)
Pushed == Args("push")

\* the last operation dispatched a push batch whose items are all records
PushDispatched ==
  /\ DispatchedEvent("push") /\ BatchList.t = "arr" /\ BatchList.v # <<>>
  /\ \A k \in 1..Len(BatchList.v) : BatchList.v[k].t = "obj"

C36_FlagMatchesCurrentSocket ==
  connected <=> socks[ws] = "OPEN"

\* C37 (as claimed): a socket that start() has replaced is closing or closed:
\* it cannot open, deliver frames or report errors to the client any more.
C37_ReplacedSocketIsDead ==
  \A s \in Socks : s # ws => socks[s] \in {"CLOSING", "CLOSED"}

\* C38 (as claimed): a request whose send was rejected as not connected was
\* not handed to the socket for transmission.
C38_NotConnectedNotSent ==
  \A i \in Ids : reqs[i].sendErr = "notConnected" => ~reqs[i].onWire

\* an application that issues its requests on the socket the constructor
\* connected, and reconnects with start() after that socket has closed
NextReconnect ==
  \/ Tick
  \/ Start
  \/ \E s \in Socks : WsOpen(s)
  \/ \E s \in Socks : WsClose(s)
  \/ \E s \in Socks, in \in InboundLife : WsMessage(s, in)
  \/ Len(reqs) < MaxReq /\ Len(socks) = 1 /\ AsyncSend
  \/ \E i \in Ids : Timeout(i)

SpecReconnect == InitListening /\ [][NextReconnect]_vars

\* request i (issued on the first socket) has lost its connection: that
\* socket has closed, start() has created a new one, and the request is
\* still waiting for its reply
Orphaned(i) ==
  /\ ws # 1 /\ socks[1] = "CLOSED"
  /\ reqs[i].listener /\ reqs[i].outcome = "pending"

\* C39 (as claimed): a cmdRet frame with the cmdId of a request whose
\* connection has closed, arriving on a socket created by a later start(),
\* does not resolve that request.
C39_ReplyOnNewSocketIgnored ==
  [][\A i \in Ids :
       Orphaned(i) /\ (RetEmitted(reqs[i].cmdId))' => reqs'[i].outcome # "fulfilled"]_vars

\* C39 (amended): a request that is outstanding when its connection closes
\* stays registered: a cmdRet frame with its cmdId arriving on a socket
\* created by a later start(), before the request's timer fires, resolves
\* it; a close and a start() leave the request as it was.
C39_ReplyOnNewSocketResolves ==
  [][\A i \in Ids :
       /\ Orphaned(i) /\ (RetEmitted(reqs[i].cmdId))' =>
            /\ reqs'[i].outcome = "fulfilled" /\ ~reqs'[i].listener
            /\ reqs'[i].timer = "cleared"
       /\ (Len(socks') # Len(socks) \/ \E s \in Socks : socks[s] # socks'[s]) =>
            reqs'[i] = reqs[i]]_vars

C39_Witness ==
  /\ \E i \in Ids :
       /\ reqs[i].onWire /\ reqs[i].outcome = "fulfilled"
       /\ RetEmitted(reqs[i].cmdId)
  /\ socks = <<"CLOSED", "OPEN">>

\* C40: asyncSend registers the listener and the timer of a request before
\* the frame is handed to the socket (the request it appends is registered
\* in the state the frame leaves from), and once the send of a request has
\* failed no listener and no armed timer of that request remain.
C40_RegisteredBeforeSendClearedOnFailure ==
  [][/\ Len(reqs') > Len(reqs) =>
          reqs'[Len(reqs')].listener /\ reqs'[Len(reqs')].timer = "armed"
     /\ \A i \in 1..Len(reqs') :
          reqs'[i].send = "rejected" =>
            ~reqs'[i].listener /\ reqs'[i].timer # "armed"]_vars

====
